---- MODULE Spec2Model ----
(***************************************************************************)
(* State-machine model of the yesno_bets program                           *)
(* (src/programs/yesno_bets/programs/yesno_bets/src/lib.rs): one market,   *)
(* its escrow vault, the per-bettor position records, and the six          *)
(* instructions create_market, update_cutoff, place_bet, resolve_market,   *)
(* claim_winnings and sweep_fees.                                          *)
(*                                                                         *)
(* Every instruction handler is an operator from the account state and the *)
(* instruction's arguments to the pair (result, account state at the point *)
(* where the handler returned).  The #[program] entry point keeps that     *)
(* state only when the handler returned Ok (Commit).                       *)
(*                                                                         *)
(* Integer widths are scaled down: u64 is modelled with 19 bits and u128   *)
(* with 30 bits, so that saturation and overflow stay within the model     *)
(* checker's integers.                                                     *)
(***************************************************************************)
EXTENDS Integers, FiniteSets, Sequences, TLC

VARIABLES market, position, vault, owner_fee, wallet, paid, nclaims, nbets, now

vars == <<market, position, vault, owner_fee, wallet, paid, nclaims, nbets, now>>

----------------------------------------------------------------------------
(* Bounds of the model *)

\* the clock runs over 0..MaxTime
MaxTime == 1
\* every participant's token account (bettor_ata) starts with Wallet units
Wallet == 2000

----------------------------------------------------------------------------
(* Program constants *)

FEE_BPS == 300
BPS_DENOM == 10000

\* Outcome discriminants, stored as u8
Unset == 0
Yes == 1
No == 2
Void == 3
Outcome == {Unset, Yes, No, Void}

\* the cap is CAP_TOKENS * 10^decimals base units
CAP_TOKENS == 100

\* u64::MAX and u128::MAX at the model's widths (19 and 30 bits)
U64_MAX == 2^19 - 1
U128_MAX == 2^30 - 1

----------------------------------------------------------------------------
(* Identities and inputs *)

OWNER == "owner"
Bettors == {"b1", "b2", "b3"}
Signers == Bettors \cup {OWNER}

\* decimals of the mints a market can be created for
MintDecimals == {1, 2}
\* gross amounts offered to place_bet
BetAmounts == {0, 1000, 1800}
\* timestamps offered to create_market and update_cutoff
CutoffArgs == {0, 1, 2}

----------------------------------------------------------------------------
(* Integer helpers of the Rust standard library *)

Min(a, b) == IF a < b THEN a ELSE b

saturating_mul(a, b) == Min(a * b, U64_MAX)
saturating_add(a, b) == Min(a + b, U64_MAX)
saturating_sub(a, b) == IF a < b THEN 0 ELSE a - b
\* a cast to a type narrower than u64
as_u64_narrow(x) == x % 1024

\* `x as u64` of a u128
as_u64(x) == x % (U64_MAX + 1)

RECURSIVE pow10(_)
pow10(d) == IF d = 0 THEN 1 ELSE 10 * pow10(d - 1)

RECURSIVE SumOver(_, _)
SumOver(f, S) ==
    IF S = {} THEN 0
    ELSE LET x == CHOOSE y \in S : TRUE IN f[x] + SumOver(f, S \ {x})

----------------------------------------------------------------------------
(* Records *)

NoMarket ==
    [exists |-> FALSE, decimals |-> 0, cutoff_ts |-> 0, resolved |-> FALSE,
     winning_outcome |-> Unset, total_yes |-> 0, total_no |-> 0,
     fees_accrued |-> 0]

\* a position account that does not exist (never created, or closed)
NoPosition == [exists |-> FALSE, outcome |-> Unset, claimed |-> FALSE, amount |-> 0]
\* a position account freshly allocated by init_if_needed: all zero
ZeroPosition == [exists |-> TRUE, outcome |-> Unset, claimed |-> FALSE, amount |-> 0]

\* the accounts an instruction reads and writes
Accounts(m, p, v, o, w, pd) ==
    [market |-> m, position |-> p, vault |-> v, owner_fee |-> o, wallet |-> w,
     paid |-> pd]

Cur == Accounts(market, position, vault, owner_fee, wallet, paid)

\* what a handler returns: its result and the account state it reached
Ret(res, s) == [res |-> res, st |-> s]

----------------------------------------------------------------------------
(* Pieces of the handlers *)

\* is_owner that accepts every signer
is_owner_any(caller) == caller \in Signers

\* require_keys_eq!(ctx.accounts.owner.key(), owner_pubkey(), Unauthorized)
is_owner(caller) == caller = OWNER

\* let fee = amount.saturating_mul(FEE_BPS) / BPS_DENOM;
fee_of(amount) == saturating_mul(amount, FEE_BPS) \div BPS_DENOM

\* net_of that credits the gross amount
net_of_gross(amount) == amount

\* let net = amount.saturating_sub(fee);
net_of(amount) == saturating_sub(amount, fee_of(amount))

\* max_total_wide with the exponent off by one
max_total_wide_scaled(decimals) == CAP_TOKENS * pow10(decimals + 1)

\* 100u128.checked_mul(10u128.pow(decimals)): the product, unchecked; the
\* mints modelled (MintDecimals) keep 10^decimals within u128
max_total_wide(decimals) == CAP_TOKENS * pow10(decimals)

\* require!(new_total <= max_total, BetExceedsLimit)
within_cap(new_total, max_total) == new_total <= max_total

\* past_cutoff that accepts the second before the cutoff
past_cutoff_early(t, cutoff_ts) == t + 1 >= cutoff_ts

\* require!(now >= m.cutoff_ts, TooEarly)
past_cutoff(t, cutoff_ts) == t >= cutoff_ts

\* auto_void that needs both pools to be empty
auto_void_both(m) == m.total_yes = 0 /\ m.total_no = 0

\* let auto_void = m.total_yes == 0 || m.total_no == 0;
auto_void(m) == m.total_yes = 0 \/ m.total_no = 0

\* payout_of with the quotient rounded up instead of down
payout_of_roundup(m, p) ==
    IF m.winning_outcome = Void
    THEN IF ~(p.amount > 0) THEN [res |-> "NoPayout", payout |-> 0]
         ELSE [res |-> "Ok", payout |-> p.amount]
    ELSE IF ~(p.outcome = m.winning_outcome) THEN [res |-> "NoPayout", payout |-> 0]
    ELSE LET total_pool == m.total_yes + m.total_no
             winning_pool == IF m.winning_outcome = Yes THEN m.total_yes
                             ELSE m.total_no
         IN IF ~(winning_pool > 0) THEN [res |-> "NoPayout", payout |-> 0]
            ELSE [res |-> "Ok",
                  payout |-> (total_pool * p.amount + winning_pool - 1)
                                 \div winning_pool]

\* payout_of with the ratio taken over the losing pool
payout_of_losing_pool(m, p) ==
    IF m.winning_outcome = Void
    THEN IF ~(p.amount > 0) THEN [res |-> "NoPayout", payout |-> 0]
         ELSE [res |-> "Ok", payout |-> p.amount]
    ELSE IF ~(p.outcome = m.winning_outcome) THEN [res |-> "NoPayout", payout |-> 0]
    ELSE LET total_pool == m.total_yes + m.total_no
             winning_pool == IF m.winning_outcome = Yes THEN m.total_no
                             ELSE m.total_yes
         IN IF ~(winning_pool > 0) THEN [res |-> "NoPayout", payout |-> 0]
            ELSE [res |-> "Ok",
                  payout |-> (total_pool * p.amount) \div winning_pool]

\* payout_of with the division made before the multiplication
payout_of_divide_first(m, p) ==
    IF m.winning_outcome = Void
    THEN IF ~(p.amount > 0) THEN [res |-> "NoPayout", payout |-> 0]
         ELSE [res |-> "Ok", payout |-> p.amount]
    ELSE IF ~(p.outcome = m.winning_outcome) THEN [res |-> "NoPayout", payout |-> 0]
    ELSE LET total_pool == m.total_yes + m.total_no
             winning_pool == IF m.winning_outcome = Yes THEN m.total_yes
                             ELSE m.total_no
         IN IF ~(winning_pool > 0) THEN [res |-> "NoPayout", payout |-> 0]
            ELSE [res |-> "Ok",
                  payout |-> (total_pool \div winning_pool) * p.amount]

\* the payout block of claim_winnings: [res, payout]
payout_of(m, p) ==
    IF m.winning_outcome = Void
    THEN IF ~(p.amount > 0) THEN [res |-> "NoPayout", payout |-> 0]
         ELSE [res |-> "Ok", payout |-> p.amount]
    ELSE IF ~(p.outcome = m.winning_outcome) THEN [res |-> "NoPayout", payout |-> 0]
    ELSE LET total_pool == m.total_yes + m.total_no
             winning_pool == IF m.winning_outcome = Yes THEN m.total_yes
                             ELSE m.total_no
         IN IF total_pool > U128_MAX THEN [res |-> "Overflow", payout |-> 0]
            ELSE IF ~(winning_pool > 0) THEN [res |-> "NoPayout", payout |-> 0]
            ELSE IF total_pool * p.amount > U128_MAX
                 THEN [res |-> "Overflow", payout |-> 0]
            ELSE LET payout_u128 == (total_pool * p.amount) \div winning_pool
                 IN IF payout_u128 > U64_MAX
                    THEN [res |-> "Overflow", payout |-> 0]
                    ELSE [res |-> "Ok", payout |-> payout_u128]

\* same_side that accepts every outcome
same_side_any(p, outcome) == TRUE

\* require!(p.outcome == outcome as u8, CannotSwitchSide)
same_side(p, outcome) == p.outcome = outcome

----------------------------------------------------------------------------
(* Instruction handlers.  s is the account state on entry, t the clock.    *)

\* #[account(init, ...)] market, then the body of create_market
create_market(s, caller, mint_decimals, cutoff_ts) ==
    IF s.market.exists THEN Ret("AccountInUse", s)
    ELSE IF ~is_owner(caller) THEN Ret("Unauthorized", s)
    ELSE Ret("Ok", [s EXCEPT !.market =
            [exists |-> TRUE, decimals |-> mint_decimals,
             cutoff_ts |-> cutoff_ts, resolved |-> FALSE,
             winning_outcome |-> Unset, total_yes |-> 0, total_no |-> 0,
             fees_accrued |-> 0]])

\* update_cutoff without the BettingClosed check
update_cutoff_reopen(s, t, caller, new_cutoff_ts) ==
    LET m == s.market IN
    IF ~m.exists THEN Ret("AccountNotInitialized", s)
    ELSE IF ~is_owner(caller) THEN Ret("Unauthorized", s)
    ELSE IF m.resolved THEN Ret("AlreadyResolved", s)
    ELSE IF ~(new_cutoff_ts > t) THEN Ret("InvalidCutoff", s)
    ELSE Ret("Ok", [s EXCEPT !.market.cutoff_ts = new_cutoff_ts])

update_cutoff(s, t, caller, new_cutoff_ts) ==
    LET m == s.market IN
    IF ~m.exists THEN Ret("AccountNotInitialized", s)
    ELSE IF ~is_owner(caller) THEN Ret("Unauthorized", s)
    ELSE IF m.resolved THEN Ret("AlreadyResolved", s)
    ELSE IF ~(t < m.cutoff_ts) THEN Ret("BettingClosed", s)
    ELSE IF ~(new_cutoff_ts > t) THEN Ret("InvalidCutoff", s)
    ELSE Ret("Ok", [s EXCEPT !.market.cutoff_ts = new_cutoff_ts])

place_bet(s, t, bettor, outcome, amount) ==
    LET m == s.market IN
    IF ~m.exists THEN Ret("AccountNotInitialized", s)
    ELSE
    \* init_if_needed on the position account
    LET s0 == IF s.position[bettor].exists THEN s
              ELSE [s EXCEPT !.position[bettor] = ZeroPosition]
    IN
    IF ~(amount > 0) THEN Ret("InvalidAmount", s0)
    ELSE IF m.resolved THEN Ret("MarketResolved", s0)
    ELSE IF ~(t < m.cutoff_ts) THEN Ret("BettingClosed", s0)
    ELSE
    LET fee == fee_of(amount)
        net == net_of(amount)
    IN
    \* token::transfer(bettor_ata -> vault, amount): the token program
    \* rejects it when bettor_ata holds less than amount
    IF s0.wallet[bettor] < amount \/ s0.vault + amount > U64_MAX
    THEN Ret("TokenTransferFailed", s0)
    ELSE
    LET s1 == [s0 EXCEPT !.vault = @ + amount, !.wallet[bettor] = @ - amount]
        p == s1.position[bettor]
    IN
    IF p.amount # 0 /\ ~same_side(p, outcome) THEN Ret("CannotSwitchSide", s1)
    ELSE
    LET s2 == IF p.amount = 0
              THEN [s1 EXCEPT !.position[bettor].outcome = outcome,
                              !.position[bettor].claimed = FALSE]
              ELSE s1
        max_total == max_total_wide(m.decimals)
        new_total == p.amount + net
    IN
    IF max_total > U128_MAX \/ new_total > U128_MAX THEN Ret("Overflow", s2)
    ELSE IF ~within_cap(new_total, max_total) THEN Ret("BetExceedsLimit", s2)
    ELSE
    LET s3 == [s2 EXCEPT !.position[bettor].amount = as_u64(new_total)] IN
    IF outcome \notin {Yes, No} THEN Ret("InvalidOutcomeArg", s3)
    ELSE
    LET s4 == IF outcome = Yes
              THEN [s3 EXCEPT !.market.total_yes = saturating_add(@, net)]
              ELSE [s3 EXCEPT !.market.total_no = saturating_add(@, net)]
    IN Ret("Ok", [s4 EXCEPT !.market.fees_accrued = saturating_add(@, fee)])

\* resolve_market without the AlreadyResolved check
resolve_market_again(s, t, caller, winning_outcome) ==
    LET m == s.market IN
    IF ~m.exists THEN Ret("AccountNotInitialized", s)
    ELSE IF ~is_owner(caller) THEN Ret("Unauthorized", s)
    ELSE IF ~past_cutoff(t, m.cutoff_ts) THEN Ret("TooEarly", s)
    ELSE
    LET s1 == [s EXCEPT !.market.resolved = TRUE] IN
    IF auto_void(m)
    THEN Ret("Ok", [s1 EXCEPT !.market.winning_outcome = Void])
    ELSE IF winning_outcome \in {Yes, No}
    THEN Ret("Ok", [s1 EXCEPT !.market.winning_outcome = winning_outcome])
    ELSE Ret("InvalidOutcomeArg", s1)

resolve_market(s, t, caller, winning_outcome) ==
    LET m == s.market IN
    IF ~m.exists THEN Ret("AccountNotInitialized", s)
    ELSE IF ~is_owner(caller) THEN Ret("Unauthorized", s)
    ELSE IF m.resolved THEN Ret("AlreadyResolved", s)
    ELSE IF ~past_cutoff(t, m.cutoff_ts) THEN Ret("TooEarly", s)
    ELSE
    LET s1 == [s EXCEPT !.market.resolved = TRUE] IN
    IF auto_void(m)
    THEN Ret("Ok", [s1 EXCEPT !.market.winning_outcome = Void])
    ELSE IF winning_outcome \in {Yes, No}
    THEN Ret("Ok", [s1 EXCEPT !.market.winning_outcome = winning_outcome])
    ELSE Ret("InvalidOutcomeArg", s1)

\* claim_winnings that takes the claimed stake out of its pool
claim_winnings_drain(s, bettor) ==
    LET m == s.market
        p == s.position[bettor]
    IN
    IF ~m.exists \/ ~p.exists THEN Ret("AccountNotInitialized", s)
    ELSE IF ~m.resolved THEN Ret("NotResolved", s)
    ELSE IF p.claimed THEN Ret("AlreadyClaimed", s)
    ELSE
    LET po == payout_of(m, p) IN
    IF po.res # "Ok" THEN Ret(po.res, s)
    ELSE IF po.payout > s.vault THEN Ret("TokenTransferFailed", s)
    ELSE Ret("Ok", [s EXCEPT !.vault = @ - po.payout,
                             !.wallet[bettor] = @ + po.payout,
                             !.paid[bettor] = @ + po.payout,
                             !.position[bettor].claimed = TRUE,
                             !.market.total_yes =
                                IF p.outcome = Yes THEN @ - p.amount ELSE @,
                             !.market.total_no =
                                IF p.outcome = No THEN @ - p.amount ELSE @])

\* the body of claim_winnings; the position is the PDA of (market, bettor)
claim_winnings(s, bettor) ==
    LET m == s.market
        p == s.position[bettor]
    IN
    IF ~m.exists \/ ~p.exists THEN Ret("AccountNotInitialized", s)
    ELSE IF ~m.resolved THEN Ret("NotResolved", s)
    ELSE IF p.claimed THEN Ret("AlreadyClaimed", s)
    ELSE
    LET po == payout_of(m, p) IN
    IF po.res # "Ok" THEN Ret(po.res, s)
    \* token::transfer(vault -> bettor_ata, payout)
    ELSE IF po.payout > s.vault THEN Ret("TokenTransferFailed", s)
    ELSE Ret("Ok", [s EXCEPT !.vault = @ - po.payout,
                             !.wallet[bettor] = @ + po.payout,
                             !.paid[bettor] = @ + po.payout,
                             !.position[bettor].claimed = TRUE])

\* close_position that leaves the record in place
close_position_kept(s, bettor) == s

\* #[account(mut, close = bettor, ...)] position: on exit the record is removed
close_position(s, bettor) == [s EXCEPT !.position[bettor] = NoPosition]

\* sweep_fees that leaves fees_accrued as it was
sweep_fees_no_reset(s, caller) ==
    LET m == s.market
        amount == m.fees_accrued
    IN
    IF ~m.exists THEN Ret("AccountNotInitialized", s)
    ELSE IF ~is_owner(caller) THEN Ret("Unauthorized", s)
    ELSE IF ~(amount > 0) THEN Ret("NoFees", s)
    ELSE IF amount > s.vault THEN Ret("TokenTransferFailed", s)
    ELSE Ret("Ok", [s EXCEPT !.vault = @ - amount,
                             !.owner_fee = @ + amount])

\* sweep_fees that takes the whole vault
sweep_fees_whole_vault(s, caller) ==
    LET m == s.market
        amount == s.vault
    IN
    IF ~m.exists THEN Ret("AccountNotInitialized", s)
    ELSE IF ~is_owner(caller) THEN Ret("Unauthorized", s)
    ELSE IF ~(amount > 0) THEN Ret("NoFees", s)
    ELSE Ret("Ok", [s EXCEPT !.vault = @ - amount,
                             !.owner_fee = @ + amount,
                             !.market.fees_accrued = 0])

sweep_fees(s, caller) ==
    LET m == s.market
        amount == m.fees_accrued
    IN
    IF ~m.exists THEN Ret("AccountNotInitialized", s)
    ELSE IF ~is_owner(caller) THEN Ret("Unauthorized", s)
    ELSE IF ~(amount > 0) THEN Ret("NoFees", s)
    \* token::transfer(vault -> owner_fee_ata, amount)
    ELSE IF amount > s.vault THEN Ret("TokenTransferFailed", s)
    ELSE Ret("Ok", [s EXCEPT !.vault = @ - amount,
                             !.owner_fee = @ + amount,
                             !.market.fees_accrued = 0])

\* Commit that keeps what the handler wrote whatever it returned
Commit_partial(s, r) == r.st

\* the #[program] entry point: the accounts are written back, and the
\* transaction's transfers kept, only when the handler returned Ok
Commit(s, r) == IF r.res = "Ok" THEN r.st ELSE s

----------------------------------------------------------------------------
(* Writing the accounts back *)

Apply(s) ==
    /\ market' = s.market
    /\ position' = s.position
    /\ vault' = s.vault
    /\ owner_fee' = s.owner_fee
    /\ wallet' = s.wallet
    /\ paid' = s.paid

----------------------------------------------------------------------------
(* Initial state and actions.  A call that returns an error leaves every   *)
(* account as it was: it is a stuttering step, and what such a call        *)
(* returns is stated over the handlers directly.  nbets, nclaims and paid  *)
(* count the bets and claims that took effect and what the claims paid.    *)

Init ==
    /\ market = NoMarket
    /\ position = [b \in Bettors |-> NoPosition]
    /\ vault = 0
    /\ owner_fee = 0
    /\ wallet = [b \in Bettors |-> Wallet]
    /\ paid = [b \in Bettors |-> 0]
    /\ nclaims = [b \in Bettors |-> 0]
    /\ nbets = 0
    /\ now = 0

\* the clock (Clock::get()) advances
Tick ==
    /\ now < MaxTime
    /\ now' = now + 1
    /\ UNCHANGED <<market, position, vault, owner_fee, wallet, paid, nclaims,
                   nbets>>

\* ClaimWinnings closes the position when the handler returned Ok
claim_winnings_exit(s, bettor) ==
    LET r == claim_winnings(s, bettor) IN
    IF r.res = "Ok" THEN Ret("Ok", close_position(r.st, bettor)) ELSE r

CreateMarket ==
    \E caller \in Signers, d \in MintDecimals, c \in CutoffArgs :
        LET s == Cur IN
        /\ Apply(Commit(s, create_market(s, caller, d, c)))
        /\ UNCHANGED <<nclaims, nbets, now>>

UpdateCutoff ==
    \E caller \in Signers, c \in CutoffArgs :
        LET s == Cur IN
        /\ Apply(Commit(s, update_cutoff(s, now, caller, c)))
        /\ UNCHANGED <<nclaims, nbets, now>>

PlaceBet ==
    \E bettor \in Bettors, o \in Outcome, a \in BetAmounts :
        LET s == Cur
            r == place_bet(s, now, bettor, o, a)
        IN
        /\ Apply(Commit(s, r))
        /\ nbets' = IF r.res = "Ok" THEN nbets + 1 ELSE nbets
        /\ UNCHANGED <<nclaims, now>>

ResolveMarket ==
    \E caller \in Signers, o \in Outcome :
        LET s == Cur IN
        /\ Apply(Commit(s, resolve_market(s, now, caller, o)))
        /\ UNCHANGED <<nclaims, nbets, now>>

\* claim_winnings signed by bettor
ClaimWinningsBy(bettor) ==
    LET s == Cur
        r == claim_winnings_exit(s, bettor)
    IN
    /\ Apply(Commit(s, r))
    /\ nclaims' = IF r.res = "Ok" THEN [nclaims EXCEPT ![bettor] = @ + 1]
                  ELSE nclaims
    /\ UNCHANGED <<nbets, now>>

ClaimWinnings == \E bettor \in Bettors : ClaimWinningsBy(bettor)

SweepFees ==
    \E caller \in Signers :
        LET s == Cur IN
        /\ Apply(Commit(s, sweep_fees(s, caller)))
        /\ UNCHANGED <<nclaims, nbets, now>>

Next ==
    \/ Tick
    \/ CreateMarket
    \/ UpdateCutoff
    \/ PlaceBet
    \/ ResolveMarket
    \/ ClaimWinnings
    \/ SweepFees

Spec == Init /\ [][Next]_vars

\* every participant whose claim_winnings would take effect eventually
\* sends it
FairSpec == Spec /\ \A b \in Bettors : WF_vars(ClaimWinningsBy(b))

----------------------------------------------------------------------------
(* Reference values used by the properties *)

\* floor(a * 300 / 10000), in unbounded arithmetic
RefFee(a) == (a * FEE_BPS) \div BPS_DENOM
RefNet(a) == a - RefFee(a)
\* 100 * 10^decimals
RefCap(d) == CAP_TOKENS * pow10(d)
\* floor((total_yes + total_no) * amount / winning_pool), or the refund
RefPayout(m, p) ==
    IF m.winning_outcome = Void THEN p.amount
    ELSE ((m.total_yes + m.total_no) * p.amount)
            \div (IF m.winning_outcome = Yes THEN m.total_yes ELSE m.total_no)

TotalPaid == SumOver(paid, Bettors)

\* a market and a position with the given fields, for the worked examples
MarketWith(wo, ty, tn) ==
    [exists |-> TRUE, decimals |-> 2, cutoff_ts |-> 0, resolved |-> TRUE,
     winning_outcome |-> wo, total_yes |-> ty, total_no |-> tn,
     fees_accrued |-> 0]
PositionWith(o, a) ==
    [exists |-> TRUE, outcome |-> o, claimed |-> FALSE, amount |-> a]

----------------------------------------------------------------------------
(* C1: no-overspend.  In a market resolved Yes or No, the payouts that the *)
(* successful claim_winnings calls have transferred sum to at most         *)
(* total_yes + total_no.                                                   *)
C1_NoOverspend ==
    market.winning_outcome \in {Yes, No} =>
        TotalPaid <= market.total_yes + market.total_no

\* both winners of a Yes/No market were paid, with rounding loss
C1_Witness ==
    /\ market.winning_outcome \in {Yes, No}
    /\ Cardinality({b \in Bettors : nclaims[b] = 1}) = 2
    /\ TotalPaid < market.total_yes + market.total_no

----------------------------------------------------------------------------
(* C2: a position is claimed at most once.  For every participant at most *)
(* one claim_winnings succeeds (one transfer); after it the position       *)
(* record is gone in every later state, a further claim fails with         *)
(* AlreadyClaimed or AccountNotInitialized, and no place_bet succeeds, so  *)
(* the record is never created again.                                      *)
C2_ClaimOnce ==
    \A b \in Bettors :
        /\ nclaims[b] <= 1
        /\ nclaims[b] = 0 => paid[b] = 0
        /\ nclaims[b] = 1 =>
            /\ ~position[b].exists
            /\ claim_winnings_exit(Cur, b).res
                    \in {"AlreadyClaimed", "AccountNotInitialized"}
            /\ Commit(Cur, claim_winnings_exit(Cur, b)) = Cur
            /\ \A o \in Outcome, a \in BetAmounts :
                LET r == place_bet(Cur, now, b, o, a) IN
                r.res # "Ok" /\ Commit(Cur, r) = Cur

\* a participant has claimed and been paid
C2_Witness == \E b \in Bettors : nclaims[b] = 1 /\ paid[b] > 0

----------------------------------------------------------------------------
(* C3: claim_winnings agrees with the reference payout.  On a resolved     *)
(* market, a claim on an unclaimed position: Void with amount > 0          *)
(* transfers exactly the amount; Yes/No with the position on the winning   *)
(* side transfers floor((total_yes + total_no) * amount / winning_pool);   *)
(* a position on the other side fails with NoPayout and transfers nothing. *)
(* Pools 700/300 and amount 140 on Yes give 200; Void with 500 gives 500.  *)
C3_ClaimCases ==
    /\ payout_of(MarketWith(Yes, 700, 300), PositionWith(Yes, 140))
            = [res |-> "Ok", payout |-> 200]
    /\ payout_of(MarketWith(Void, 500, 0), PositionWith(Yes, 500))
            = [res |-> "Ok", payout |-> 500]
    /\ \A b \in Bettors :
        (market.resolved /\ position[b].exists /\ ~position[b].claimed) =>
            LET p == position[b]
                r == claim_winnings_exit(Cur, b)
                after == Commit(Cur, r)
            IN
            IF market.winning_outcome = Void \/ p.outcome = market.winning_outcome
            THEN /\ p.amount > 0
                 /\ r.res = "Ok"
                 /\ after.vault = vault - RefPayout(market, p)
                 /\ after.paid[b] = paid[b] + RefPayout(market, p)
            ELSE /\ r.res = "NoPayout"
                 /\ after = Cur

\* C3, as steps: every successful claim moves exactly the reference payout
C3_ClaimStep ==
    \A b \in Bettors :
        nclaims'[b] = nclaims[b] + 1 =>
            /\ market.resolved /\ position[b].exists /\ ~position[b].claimed
            /\ market.winning_outcome \in {Yes, No} =>
                    position[b].outcome = market.winning_outcome
            /\ paid'[b] = paid[b] + RefPayout(market, position[b])
            /\ vault' = vault - RefPayout(market, position[b])
            /\ \A c \in Bettors \ {b} : paid'[c] = paid[c]

\* C3: in every state a claim returns what the reference says, and every
\* claim step transfers the reference payout
C3_ClaimPaysReference == [](C3_ClaimCases) /\ [][C3_ClaimStep]_vars

\* a winner was paid a rounded-down share while a loser's position remains
C3_Witness ==
    /\ market.winning_outcome \in {Yes, No}
    /\ \E b \in Bettors : nclaims[b] = 1 /\ paid[b] > 0
    /\ TotalPaid < market.total_yes + market.total_no
    /\ \E c \in Bettors :
        /\ position[c].exists
        /\ position[c].outcome # market.winning_outcome
        /\ claim_winnings_exit(Cur, c).res = "NoPayout"

----------------------------------------------------------------------------
(* C4: every successful place_bet of gross amount a on side o has          *)
(* fee = floor(a * 300 / 10000) and net = a - fee: the vault grows by a,   *)
(* the position by net, the pool of side o by net, fees_accrued by fee,    *)
(* and the other pool and the other positions stay as they were.           *)
C4_BetStep ==
    nbets' = nbets + 1 =>
        \E b \in Bettors, o \in {Yes, No} :
            LET a == vault' - vault
                fee == RefFee(a)
                net == a - fee
            IN
            /\ a > 0
            /\ position'[b].exists /\ position'[b].outcome = o
            /\ position'[b].amount = position[b].amount + net
            /\ \A c \in Bettors \ {b} : position'[c] = position[c]
            /\ market'.fees_accrued = market.fees_accrued + fee
            /\ IF o = Yes
               THEN /\ market'.total_yes = market.total_yes + net
                    /\ market'.total_no = market.total_no
               ELSE /\ market'.total_no = market.total_no + net
                    /\ market'.total_yes = market.total_yes

\* C4: every step that places a bet splits the deposit as the reference does
C4_BetSplitExact == [][C4_BetStep]_vars

----------------------------------------------------------------------------
(* C5: every position's amount is at most 100 * 10^decimals, and a         *)
(* place_bet that reaches the cap check with a net that would lift the     *)
(* position above the cap returns BetExceedsLimit and changes nothing.     *)
C5_CapHolds ==
    /\ \A b \in Bettors : position[b].amount <= RefCap(market.decimals)
    /\ \A b \in Bettors, o \in Outcome, a \in BetAmounts :
        ( /\ market.exists /\ ~market.resolved /\ now < market.cutoff_ts
          /\ a > 0 /\ wallet[b] >= a
          /\ position[b].amount = 0 \/ position[b].outcome = o
          /\ position[b].amount + RefNet(a) > RefCap(market.decimals) )
        => LET r == place_bet(Cur, now, b, o, a) IN
           r.res = "BetExceedsLimit" /\ Commit(Cur, r) = Cur

\* a funded position refuses a further bet that alone would fit the cap
C5_Witness ==
    \E b \in Bettors, a \in BetAmounts :
        /\ position[b].amount > 0
        /\ a > 0 /\ RefNet(a) <= RefCap(market.decimals)
        /\ position[b].amount + RefNet(a) > RefCap(market.decimals)
        /\ place_bet(Cur, now, b, position[b].outcome, a).res
                = "BetExceedsLimit"

----------------------------------------------------------------------------
(* C6: auto-void.  resolve_market by the authority on an unresolved market *)
(* past its cutoff: with an empty pool it succeeds and stores Void         *)
(* whatever outcome was proposed; with both pools non-zero it succeeds     *)
(* only for Yes or No, storing that outcome, and returns InvalidOutcomeArg *)
(* for Unset and Void.                                                     *)
C6_ResolveCases ==
    \A o \in Outcome :
        (market.exists /\ ~market.resolved /\ now >= market.cutoff_ts) =>
            LET r == resolve_market(Cur, now, OWNER, o)
                after == Commit(Cur, r)
            IN
            IF market.total_yes = 0 \/ market.total_no = 0
            THEN /\ r.res = "Ok"
                 /\ after.market.resolved
                 /\ after.market.winning_outcome = Void
            ELSE IF o \in {Yes, No}
            THEN /\ r.res = "Ok"
                 /\ after.market.resolved
                 /\ after.market.winning_outcome = o
            ELSE r.res = "InvalidOutcomeArg" /\ after = Cur

\* C6, as steps: a step that resolves the market stores Void iff a pool is
\* empty
C6_ResolveStep ==
    (~market.resolved /\ market'.resolved) =>
        IF market.total_yes = 0 \/ market.total_no = 0
        THEN market'.winning_outcome = Void
        ELSE market'.winning_outcome \in {Yes, No}

\* C6: the auto-void rule, of every resolve_market call and every resolving step
C6_AutoVoid == [](C6_ResolveCases) /\ [][C6_ResolveStep]_vars

\* a market with stake on one side only was resolved, and is Void
C6_Witness ==
    /\ market.resolved /\ market.winning_outcome = Void
    /\ market.total_yes + market.total_no > 0

----------------------------------------------------------------------------
(* C7: an unresolved market has winning_outcome Unset, a resolved one Yes, *)
(* No or Void; once resolved, no step changes resolved or winning_outcome, *)
(* and a further resolve_market returns AlreadyResolved.                   *)
C7_ResolvedInv ==
    /\ ~market.resolved => market.winning_outcome = Unset
    /\ market.resolved =>
        /\ market.winning_outcome \in {Yes, No, Void}
        /\ \A o \in Outcome :
            LET r == resolve_market(Cur, now, OWNER, o) IN
            r.res = "AlreadyResolved" /\ Commit(Cur, r) = Cur

C7_ResolvedStep ==
    market.resolved =>
        /\ market'.resolved
        /\ market'.winning_outcome = market.winning_outcome

\* C7: resolved and winning_outcome agree in every state and are never
\* changed once the market is resolved
C7_ResolutionFixed == [](C7_ResolvedInv) /\ [][C7_ResolvedStep]_vars

\* a market resolved Yes or No on which a claim has since been paid
C7_Witness ==
    /\ market.resolved /\ market.winning_outcome \in {Yes, No}
    /\ \E b \in Bettors : nclaims[b] = 1

----------------------------------------------------------------------------
(* C8: while the clock is before the cutoff, resolve_market by the         *)
(* authority returns TooEarly for every proposed outcome and changes       *)
(* nothing; the market is unresolved with winning_outcome Unset.           *)
C8_TooEarly ==
    (market.exists /\ now < market.cutoff_ts) =>
        /\ ~market.resolved /\ market.winning_outcome = Unset
        /\ \A o \in Outcome :
            LET r == resolve_market(Cur, now, OWNER, o) IN
            r.res = "TooEarly" /\ Commit(Cur, r) = Cur

\* an open market with stake on both sides
C8_Witness ==
    /\ market.exists /\ now < market.cutoff_ts
    /\ market.total_yes > 0 /\ market.total_no > 0
    /\ resolve_market(Cur, now, OWNER, Yes).res = "TooEarly"

----------------------------------------------------------------------------
(* C9: create_market (on a fresh market account), update_cutoff,           *)
(* resolve_market and sweep_fees (on an existing market) called by a       *)
(* signer other than the authority return Unauthorized, whatever else      *)
(* holds, and change nothing.                                              *)
C9_Unauthorized ==
    \A caller \in Signers \ {OWNER} :
        /\ ~market.exists =>
            \A d \in MintDecimals, c \in CutoffArgs :
                LET r == create_market(Cur, caller, d, c) IN
                r.res = "Unauthorized" /\ Commit(Cur, r) = Cur
        /\ market.exists =>
            /\ \A c \in CutoffArgs :
                LET r == update_cutoff(Cur, now, caller, c) IN
                r.res = "Unauthorized" /\ Commit(Cur, r) = Cur
            /\ \A o \in Outcome :
                LET r == resolve_market(Cur, now, caller, o) IN
                r.res = "Unauthorized" /\ Commit(Cur, r) = Cur
            /\ LET r == sweep_fees(Cur, caller) IN
               r.res = "Unauthorized" /\ Commit(Cur, r) = Cur

\* a market where the authority's own sweep_fees and resolve_market would
\* succeed, and a participant's are refused
C9_Witness ==
    /\ market.exists /\ ~market.resolved /\ now >= market.cutoff_ts
    /\ market.fees_accrued > 0
    /\ sweep_fees(Cur, OWNER).res = "Ok"
    /\ resolve_market(Cur, now, OWNER, Yes).res = "Ok"
    /\ sweep_fees(Cur, "b1").res = "Unauthorized"
    /\ resolve_market(Cur, now, "b1", Yes).res = "Unauthorized"

----------------------------------------------------------------------------
----------------------------------------------------------------------------
(* C11: sweep_fees by the authority succeeds iff fees_accrued > 0.  On     *)
(* success it moves exactly fees_accrued from the vault to the authority's *)
(* account and sets fees_accrued to 0, leaving the pools, the resolution   *)
(* state, the cutoff and every position and wallet as they were; a sweep   *)
(* right after it returns NoFees.  With fees_accrued = 0 it returns NoFees *)
(* and changes nothing.                                                    *)
C11_SweepCases ==
    market.exists =>
        LET r == sweep_fees(Cur, OWNER)
            after == Commit(Cur, r)
            again == sweep_fees(after, OWNER)
        IN
        /\ r.res = "Ok" <=> market.fees_accrued > 0
        /\ market.fees_accrued > 0 =>
            /\ after.vault = vault - market.fees_accrued
            /\ after.owner_fee = owner_fee + market.fees_accrued
            /\ after.market = [market EXCEPT !.fees_accrued = 0]
            /\ after.position = position
            /\ after.wallet = wallet
            /\ again.res = "NoFees" /\ Commit(after, again) = after
        /\ market.fees_accrued = 0 => r.res = "NoFees" /\ after = Cur

\* C11, as steps: a step that pays the authority is a whole sweep
C11_SweepStep ==
    owner_fee' # owner_fee =>
        /\ market.fees_accrued > 0
        /\ owner_fee' = owner_fee + market.fees_accrued
        /\ vault' = vault - market.fees_accrued
        /\ market' = [market EXCEPT !.fees_accrued = 0]
        /\ position' = position /\ wallet' = wallet

\* C11: what sweep_fees returns in every state, and what every sweep moves
C11_SweepExact == [](C11_SweepCases) /\ [][C11_SweepStep]_vars

\* the fees of a market with stake on both sides were swept, and a further
\* sweep is refused
C11_Witness ==
    /\ owner_fee > 0 /\ market.fees_accrued = 0
    /\ market.total_yes > 0 /\ market.total_no > 0
    /\ vault = market.total_yes + market.total_no
    /\ sweep_fees(Cur, OWNER).res = "NoFees"

----------------------------------------------------------------------------
(* C12: a position's outcome is set by the first successful bet and never  *)
(* changes while the position exists.  A place_bet by the participant      *)
(* that names another outcome never succeeds and changes nothing; when it  *)
(* passes the checks made before the side check (amount > 0, market        *)
(* unresolved, before the cutoff, deposit transferred) it returns          *)
(* CannotSwitchSide.  Every bet adds to the pool of the position's own     *)
(* side only.                                                              *)
C12_SwitchCases ==
    \A b \in Bettors :
        position[b].exists =>
            /\ position[b].amount > 0
            /\ \A o \in Outcome \ {position[b].outcome}, a \in BetAmounts :
                LET r == place_bet(Cur, now, b, o, a) IN
                /\ r.res # "Ok" /\ Commit(Cur, r) = Cur
                /\ ( /\ a > 0 /\ ~market.resolved /\ now < market.cutoff_ts
                     /\ wallet[b] >= a )
                   => r.res = "CannotSwitchSide"

C12_OutcomeStep ==
    \A b \in Bettors :
        /\ (position[b].exists /\ position'[b].exists) =>
                position'[b].outcome = position[b].outcome
        /\ position'[b].amount > position[b].amount =>
            LET net == position'[b].amount - position[b].amount IN
            IF position'[b].outcome = Yes
            THEN /\ market'.total_yes = market.total_yes + net
                 /\ market'.total_no = market.total_no
            ELSE /\ position'[b].outcome = No
                 /\ market'.total_no = market.total_no + net
                 /\ market'.total_yes = market.total_yes

\* C12: a bet on another outcome is refused in every state, and no step
\* changes the outcome of a position or stakes it on the other side
C12_NoSideSwitch == [](C12_SwitchCases) /\ [][C12_OutcomeStep]_vars

\* a participant with stake on Yes may add to it and is refused a bet on No
C12_Witness ==
    \E b \in Bettors :
        /\ position[b].exists /\ position[b].outcome = Yes
        /\ position[b].amount = RefNet(1000)
        /\ place_bet(Cur, now, b, No, 1000).res = "CannotSwitchSide"
        /\ place_bet(Cur, now, b, Yes, 1000).res = "Ok"

----------------------------------------------------------------------------
(* C13: closing is permanent.  Once the clock has reached the cutoff       *)
(* (now >= cutoff_ts), no update_cutoff and no place_bet succeeds or       *)
(* changes anything; update_cutoff by the authority on the unresolved      *)
(* market returns BettingClosed.  The clock never goes back, so from then  *)
(* on no step changes cutoff_ts, places a bet or reopens the market.       *)
C13_ClosedCases ==
    (market.exists /\ now >= market.cutoff_ts) =>
        /\ \A caller \in Signers, c \in CutoffArgs :
            LET r == update_cutoff(Cur, now, caller, c) IN
            /\ r.res # "Ok" /\ Commit(Cur, r) = Cur
            /\ (caller = OWNER /\ ~market.resolved) => r.res = "BettingClosed"
        /\ \A b \in Bettors, o \in Outcome, a \in BetAmounts :
            LET r == place_bet(Cur, now, b, o, a) IN
            /\ r.res # "Ok" /\ Commit(Cur, r) = Cur
            /\ (a > 0 /\ ~market.resolved) => r.res = "BettingClosed"

C13_ClosedStep ==
    /\ now' >= now
    /\ (market.exists /\ now >= market.cutoff_ts) =>
        /\ market'.exists
        /\ market'.cutoff_ts = market.cutoff_ts
        /\ now' >= market'.cutoff_ts
        /\ nbets' = nbets
        /\ market'.total_yes = market.total_yes
        /\ market'.total_no = market.total_no

\* C13: a closed market refuses update_cutoff and place_bet in every state,
\* and no step moves its cutoff or reopens it
C13_ClosingPermanent == [](C13_ClosedCases) /\ [][C13_ClosedStep]_vars

\* the clock has reached the cutoff of a market with stake; the authority's
\* move to a later time and a funded bet are both refused
C13_Witness ==
    /\ market.exists /\ ~market.resolved
    /\ now = 1 /\ market.cutoff_ts = 1
    /\ market.total_yes > 0
    /\ update_cutoff(Cur, now, OWNER, 2).res = "BettingClosed"
    /\ \E b \in Bettors :
        /\ wallet[b] >= 1000
        /\ place_bet(Cur, now, b, Yes, 1000).res = "BettingClosed"

----------------------------------------------------------------------------
(* C14: while the market is unresolved no step lowers total_yes or         *)
(* total_no; once it is resolved no step changes either pool, so every     *)
(* claim is computed from the pools as they were at resolution.            *)
C14_PoolStep ==
    /\ ~market.resolved =>
        /\ market'.total_yes >= market.total_yes
        /\ market'.total_no >= market.total_no
    /\ market.resolved =>
        /\ market'.total_yes = market.total_yes
        /\ market'.total_no = market.total_no

\* C14: the pools grow until resolution and are frozen after it
C14_PoolsFrozen == [][C14_PoolStep]_vars

\* a market resolved Yes or No whose pools still hold all three bets after
\* a winner was paid and the fees were swept
C14_Witness ==
    /\ market.resolved /\ market.winning_outcome \in {Yes, No}
    /\ \E b \in Bettors : nclaims[b] = 1 /\ paid[b] > 0
    /\ owner_fee > 0 /\ market.fees_accrued = 0
    /\ market.total_yes > 0 /\ market.total_no > 0
    /\ market.total_yes + market.total_no = 3 * RefNet(1000)

----------------------------------------------------------------------------
(* C15: no silent clamping.  A place_bet that passes the checks on the     *)
(* amount, the market, the deposit and the side, and in which the fee      *)
(* product amount * 300, the position's new amount, the new pool total or  *)
(* the new fees_accrued exceeds u64, returns Overflow (or BetExceedsLimit, *)
(* when the cap refuses it) and never Ok; a claim whose payout exceeds u64 *)
(* returns Overflow.                                                       *)
C15_NoSilentClamp ==
    /\ \A b \in Bettors, o \in {Yes, No}, a \in BetAmounts :
        LET fee == RefFee(a)
            net == a - fee
            pool == IF o = Yes THEN market.total_yes ELSE market.total_no
            r == place_bet(Cur, now, b, o, a)
        IN
        ( /\ market.exists /\ ~market.resolved /\ now < market.cutoff_ts
          /\ a > 0 /\ wallet[b] >= a
          /\ position[b].amount = 0 \/ position[b].outcome = o
          /\ \/ a * FEE_BPS > U64_MAX
             \/ position[b].amount + net > U64_MAX
             \/ pool + net > U64_MAX
             \/ market.fees_accrued + fee > U64_MAX )
        => r.res \in {"Overflow", "BetExceedsLimit"}
    /\ \A b \in Bettors :
        ( /\ market.resolved /\ position[b].exists
          /\ market.winning_outcome = position[b].outcome
          /\ RefPayout(market, position[b]) > U64_MAX )
        => claim_winnings_exit(Cur, b).res = "Overflow"

----------------------------------------------------------------------------
(* C16: update_cutoff rejects no-ops.  No update_cutoff that returns Ok    *)
(* leaves cutoff_ts equal to its value before the call.                    *)
C16_NoNoopUpdate ==
    \A caller \in Signers, c \in CutoffArgs :
        LET r == update_cutoff(Cur, now, caller, c) IN
        r.res = "Ok" => Commit(Cur, r).market.cutoff_ts # market.cutoff_ts

----------------------------------------------------------------------------
(* C17: escrow solvency.  The vault holds at least fees_accrued plus what  *)
(* is still owed: both pools while the market is unresolved, and after     *)
(* resolution the reference payout of every remaining eligible position    *)
(* (every position if Void, the winning side if Yes or No).  So the        *)
(* transfer of a claim_winnings or a sweep_fees is never refused for lack  *)
(* of funds.                                                               *)
Eligible ==
    {b \in Bettors :
        /\ position[b].exists /\ ~position[b].claimed
        /\ market.winning_outcome = Void
            \/ position[b].outcome = market.winning_outcome}

Owed ==
    IF ~market.resolved THEN market.total_yes + market.total_no
    ELSE SumOver([b \in Bettors |->
                    IF b \in Eligible THEN RefPayout(market, position[b]) ELSE 0],
                 Bettors)

C17_Solvent ==
    /\ vault >= market.fees_accrued + Owed
    /\ ~market.resolved =>
            vault = market.fees_accrued + market.total_yes + market.total_no
    /\ \A b \in Bettors : claim_winnings_exit(Cur, b).res # "TokenTransferFailed"
    /\ \A caller \in Signers : sweep_fees(Cur, caller).res # "TokenTransferFailed"
    /\ \A b \in Eligible :
        LET r == claim_winnings_exit(Cur, b) IN
        r.res = "Ok" /\ vault - r.st.vault = RefPayout(market, position[b])

\* between a paid claim and the sweep: a winner and the fees are still owed,
\* and the vault holds more than both
C17_Witness ==
    /\ market.resolved /\ market.winning_outcome \in {Yes, No}
    /\ \E b \in Bettors : nclaims[b] = 1 /\ paid[b] > 0
    /\ Eligible # {}
    /\ market.fees_accrued > 0
    /\ vault > market.fees_accrued + Owed

----------------------------------------------------------------------------
(* C18: pool accounting.  While the market is unresolved, total_yes is the *)
(* sum of amount over the positions with outcome Yes and total_no the sum  *)
(* over those with outcome No.  Every existing position has amount > 0 and *)
(* outcome Yes or No, so place_bet's test p.amount == 0 is true only of a  *)
(* position that was just allocated.                                       *)
StakeOn(o) ==
    SumOver([b \in Bettors |->
                IF position[b].exists /\ position[b].outcome = o
                THEN position[b].amount ELSE 0],
            Bettors)

C18_PoolsMatch ==
    /\ ~market.resolved =>
        /\ market.total_yes = StakeOn(Yes)
        /\ market.total_no = StakeOn(No)
    /\ \A b \in Bettors :
        /\ position[b].exists =>
            /\ position[b].amount > 0
            /\ position[b].outcome \in {Yes, No}
            /\ ~position[b].claimed
        /\ ~position[b].exists => position[b] = NoPosition

\* every bet step on a funded position adds to it and keeps its outcome
C18_BetStep ==
    \A b \in Bettors :
        (position[b].exists /\ position'[b].exists) =>
            /\ position'[b].amount >= position[b].amount
            /\ position'[b].outcome = position[b].outcome

\* C18: the pools are the sums of the positions until resolution, and a
\* funded position is only ever added to
C18_PoolAccounting == [](C18_PoolsMatch) /\ [][C18_BetStep]_vars

\* an open market with three funded positions, two of them on one side,
\* one of which holds two bets
C18_Witness ==
    /\ market.exists /\ ~market.resolved
    /\ \A b \in Bettors : position[b].exists
    /\ StakeOn(Yes) > 0 /\ StakeOn(No) > 0
    /\ \E b \in Bettors : position[b].amount = 2 * RefNet(1000)
    /\ \E b, c \in Bettors : b # c /\ position[b].outcome = position[c].outcome

----------------------------------------------------------------------------
(* C19: bounded dust.  In a resolved market where no eligible position is  *)
(* left and fees_accrued is 0, the vault holds exactly 0 if the market is  *)
(* Void; if it is Yes or No the vault holds total_yes + total_no minus the *)
(* payouts made, which is at least 0 and less than the number of winning   *)
(* positions.                                                              *)
Claimed == {b \in Bettors : nclaims[b] = 1}

C19_BoundedDust ==
    (market.resolved /\ Eligible = {} /\ market.fees_accrued = 0) =>
        IF market.winning_outcome = Void
        THEN vault = 0
        ELSE /\ vault = market.total_yes + market.total_no - TotalPaid
             /\ vault >= 0
             /\ vault < Cardinality(Claimed)

\* both winners of a Yes/No market were paid and the fees swept: one unit
\* is left in the vault, and the loser's position remains
C19_Witness ==
    /\ market.resolved /\ market.winning_outcome \in {Yes, No}
    /\ Eligible = {} /\ market.fees_accrued = 0 /\ owner_fee > 0
    /\ Cardinality(Claimed) = 2
    /\ vault = 1
    /\ \E b \in Bettors : position[b].exists

----------------------------------------------------------------------------
(* C20: claim liveness.  On a resolved market claim_winnings by the owner  *)
(* of an eligible position succeeds, and the position stays eligible       *)
(* through every step of the others (claims, sweeps, refused calls) until  *)
(* its own claim is taken.  Under weak fairness of every participant's     *)
(* claim, every eligible position is eventually paid and removed.          *)
C20_Enabled ==
    \A b \in Bettors :
        (market.resolved /\ b \in Eligible) =>
            LET r == claim_winnings_exit(Cur, b) IN
            /\ r.res = "Ok"
            /\ ~Commit(Cur, r).position[b].exists
            /\ Commit(Cur, r).wallet[b] = wallet[b] + RefPayout(market, position[b])

C20_StaysStep ==
    \A b \in Bettors :
        (market.resolved /\ b \in Eligible) =>
            \/ /\ nclaims'[b] = nclaims[b] + 1
               /\ ~position'[b].exists
               /\ paid'[b] = paid[b] + RefPayout(market, position[b])
            \/ /\ nclaims'[b] = nclaims[b]
               /\ position'[b] = position[b]
               /\ market'.resolved
               /\ market'.winning_outcome = market.winning_outcome

\* C20: an eligible claim is enabled, stays enabled until taken, and is
\* eventually taken.  An eligible position stops being eligible only by its
\* own claim, paid and removed (C20_StaysStep), so "again and again not
\* eligible" says that every eligible position is eventually paid.
C20_ClaimLiveness ==
    /\ [](C20_Enabled)
    /\ [][C20_StaysStep]_vars
    /\ \A b \in Bettors : []<>(~(market.resolved /\ b \in Eligible))

\* a Void market after a sweep and one refund, with another refund pending
C20_Witness ==
    /\ market.resolved /\ market.winning_outcome = Void
    /\ market.fees_accrued = 0 /\ owner_fee > 0
    /\ \E b \in Bettors : nclaims[b] = 1 /\ paid[b] > 0
    /\ \E b \in Eligible : claim_winnings_exit(Cur, b).res = "Ok"

====
